---- MODULE Spec2Model ----
(***************************************************************************)
(* A model of the pid-ctrl crate (src/src/lib.rs): Limits, the three       *)
(* terms KPTerm / KITerm / KDTerm, the controller PidCtrl and the value    *)
(* objects PidIn / PidOut.                                                 *)
(*                                                                         *)
(* The generic float type T: FloatCore is modelled as a small binary       *)
(* fixed-point format with the IEEE-754 special values: a finite value is  *)
(* an integer count of quanta (ONE quanta make 1.0), every arithmetic      *)
(* result is rounded to the nearest quantum, a result beyond MaxFinite     *)
(* overflows to an infinity, and the invalid operations (inf - inf,        *)
(* 0 * inf, 0 / 0, inf / inf) produce NaN.  Comparisons with NaN are       *)
(* false; min and max return the other operand when one is NaN, as         *)
(* FloatCore::min / FloatCore::max do.                                     *)
(***************************************************************************)
EXTENDS Integers, FiniteSets, Sequences, TLC

VARIABLES
    pid,      \* the PidCtrl value
    ctor,     \* how pid was constructed: [name, p, i, d]
    op,       \* the last call made: [name, target, val, val2, ok]
    inp,      \* the PidIn built by the last PidIn::new
    out,      \* the PidOut returned by the last PidCtrl::step
    nsteps,   \* number of PidCtrl::step calls made so far
    nconf,    \* number of configuration calls made so far
    run,      \* number of consecutive step calls with the same input, setpoint and configuration
    pc        \* position of the tests/api.rs `example` driver

vars == <<pid, ctor, op, inp, out, nsteps, nconf, run, pc>>

---------------------------------------------------------------------------
(* The float type T                                                        *)

\* largest finite value, in quanta
MaxFinite == 1000

\* T::one(): the number of quanta in 1.0
ONE == 8

\* T::epsilon(): a small positive value; positive values below it exist
EPSILON == 2

HALF == ONE \div 2

PosInf == MaxFinite + 1
NegInf == -PosInf
NaN == PosInf + 1

\* every value of the type
Float == (NegInf..PosInf) \cup {NaN}

IsNaN(x) == x = NaN

IsFinite(x) == x >= -MaxFinite /\ x <= MaxFinite

\* IEEE comparisons: false as soon as one operand is NaN
FLe(a, b) == ~IsNaN(a) /\ ~IsNaN(b) /\ a <= b

FGe(a, b) == ~IsNaN(a) /\ ~IsNaN(b) /\ a >= b

\* overflow of a finite result
Overflow(n) == IF n > MaxFinite THEN PosInf ELSE IF n < -MaxFinite THEN NegInf ELSE n

Sign(n) == IF n > 0 THEN 1 ELSE IF n < 0 THEN -1 ELSE 0

Mag(n) == IF n < 0 THEN -n ELSE n

\* n / d rounded to the nearest integer, ties away from zero (d # 0)
RoundDiv(n, d) == Sign(n) * Sign(d) * ((2 * Mag(n) + Mag(d)) \div (2 * Mag(d)))

FNeg(a) == IF IsNaN(a) THEN NaN ELSE -a

FAbs(a) == IF IsNaN(a) THEN NaN ELSE Mag(a)

FAdd(a, b) ==
    IF IsNaN(a) \/ IsNaN(b) THEN NaN
    ELSE IF ~IsFinite(a) /\ ~IsFinite(b) THEN (IF a = b THEN a ELSE NaN)
    ELSE IF ~IsFinite(a) THEN a
    ELSE IF ~IsFinite(b) THEN b
    ELSE Overflow(a + b)

FSub(a, b) == FAdd(a, FNeg(b))

FMul(a, b) ==
    IF IsNaN(a) \/ IsNaN(b) THEN NaN
    ELSE IF ~IsFinite(a) \/ ~IsFinite(b)
         THEN (IF a = 0 \/ b = 0 THEN NaN
               ELSE IF Sign(a) * Sign(b) > 0 THEN PosInf ELSE NegInf)
    ELSE Overflow(RoundDiv(a * b, ONE))

FDiv(a, b) ==
    IF IsNaN(a) \/ IsNaN(b) THEN NaN
    ELSE IF ~IsFinite(a) /\ ~IsFinite(b) THEN NaN
    ELSE IF ~IsFinite(a) THEN (IF b >= 0 THEN a ELSE -a)
    ELSE IF ~IsFinite(b) THEN 0
    ELSE IF b = 0 THEN (IF a = 0 THEN NaN ELSE IF a > 0 THEN PosInf ELSE NegInf)
    ELSE Overflow(RoundDiv(a * ONE, b))

\* FloatCore::min / FloatCore::max: a NaN operand is ignored
FMin(a, b) == IF IsNaN(a) THEN b ELSE IF IsNaN(b) THEN a ELSE IF a < b THEN a ELSE b

FMax(a, b) == IF IsNaN(a) THEN b ELSE IF IsNaN(b) THEN a ELSE IF a > b THEN a ELSE b

---------------------------------------------------------------------------
(* Limits                                                                  *)

Limits_new == [lower |-> NegInf, upper |-> PosInf]

Limits_clamp_min_only(l, val) == FMin(val, l.upper)

\* val.min(self.upper).max(self.lower)
Limits_clamp(l, val) == FMax(FMin(val, l.upper), l.lower)

Limits_set_limit_no_abs(l, val) == [lower |-> FNeg(val), upper |-> val]

Limits_set_limit(l, val) == [lower |-> FNeg(FAbs(val)), upper |-> FAbs(val)]

Limits_try_set_upper_unchecked(l, val) == [ok |-> TRUE, lim |-> [l EXCEPT !.upper = val]]

Limits_try_set_upper_wrong_bound(l, val) ==
    IF FLe(l.lower, val)
    THEN [ok |-> TRUE, lim |-> [l EXCEPT !.upper = val]]
    ELSE [ok |-> FALSE, lim |-> [l EXCEPT !.lower = val]]

\* the Result is [ok, lim]: Ok(self) carries the updated Limits, Err leaves them
Limits_try_set_upper(l, val) ==
    IF FLe(l.lower, val)
    THEN [ok |-> TRUE, lim |-> [l EXCEPT !.upper = val]]
    ELSE [ok |-> FALSE, lim |-> l]

Limits_try_set_lower(l, val) ==
    IF FGe(l.upper, val)
    THEN [ok |-> TRUE, lim |-> [l EXCEPT !.lower = val]]
    ELSE [ok |-> FALSE, lim |-> l]

---------------------------------------------------------------------------
(* The three terms                                                         *)

KPTerm_default == [limits |-> Limits_new, scale |-> 0]

KITerm_default == [limits |-> Limits_new, scale |-> 0, accumulate |-> 0]

KDTerm_default == [limits |-> Limits_new, scale |-> 0, prev_measurement |-> 0]

\* set_scale of KPTerm, KITerm and KDTerm
set_scale(term, val) == [term EXCEPT !.scale = val]

KPTerm_step(kp, offset) == Limits_clamp(kp.limits, FMul(kp.scale, offset))

KITerm_step_unclamped(ki, offset, tdelta) ==
    LET i == FAdd(FMul(FMul(ki.scale, offset), tdelta), ki.accumulate)
    IN  [term |-> [ki EXCEPT !.accumulate = i], ret |-> i]

KITerm_step_raw_stored(ki, offset, tdelta) ==
    LET raw == FAdd(FMul(FMul(ki.scale, offset), tdelta), ki.accumulate)
    IN  [term |-> [ki EXCEPT !.accumulate = raw], ret |-> Limits_clamp(ki.limits, raw)]

KITerm_step_no_tdelta(ki, offset, tdelta) ==
    LET i == Limits_clamp(ki.limits, FAdd(FMul(ki.scale, offset), ki.accumulate))
    IN  [term |-> [ki EXCEPT !.accumulate = i], ret |-> i]

\* returns [term, ret]: the term after the call and the value returned
KITerm_step(ki, offset, tdelta) ==
    LET i == Limits_clamp(ki.limits, FAdd(FMul(FMul(ki.scale, offset), tdelta), ki.accumulate))
    IN  [term |-> [ki EXCEPT !.accumulate = i], ret |-> i]

KDTerm_step_prev_kept(kd, measurement, tdelta) ==
    LET d == Limits_clamp(kd.limits,
                          FDiv(FMul(kd.scale, FSub(kd.prev_measurement, measurement)), tdelta))
    IN  [term |-> kd, ret |-> d]

KDTerm_step_unclamped(kd, measurement, tdelta) ==
    LET d == FDiv(FMul(kd.scale, FSub(kd.prev_measurement, measurement)), tdelta)
    IN  [term |-> [kd EXCEPT !.prev_measurement = measurement], ret |-> d]

KDTerm_step_sign_flipped(kd, measurement, tdelta) ==
    LET d == Limits_clamp(kd.limits,
                          FDiv(FMul(kd.scale, FSub(measurement, kd.prev_measurement)), tdelta))
    IN  [term |-> [kd EXCEPT !.prev_measurement = measurement], ret |-> d]

\* returns [term, ret]
KDTerm_step(kd, measurement, tdelta) ==
    LET d == Limits_clamp(kd.limits,
                          FDiv(FMul(kd.scale, FSub(kd.prev_measurement, measurement)), tdelta))
    IN  [term |-> [kd EXCEPT !.prev_measurement = measurement], ret |-> d]

---------------------------------------------------------------------------
(* PidIn, PidOut, PidCtrl                                                  *)

PidIn_new_unclamped(measurement, tdelta) == [measurement |-> measurement, tdelta |-> tdelta]

PidIn_new(measurement, tdelta) ==
    [measurement |-> measurement, tdelta |-> FMax(FMin(tdelta, PosInf), EPSILON)]

\* PidIn::default(): both fields T::default(), tdelta not clamped
PidIn_default == [measurement |-> 0, tdelta |-> 0]

PidOut_new(p, i, d, o) == [p |-> p, i |-> i, d |-> d, out |-> o]

PidCtrl_new_derived_limits ==
    [kp |-> KPTerm_default, ki |-> KITerm_default, kd |-> KDTerm_default,
     limits |-> [lower |-> 0, upper |-> 0], setpoint |-> 0]

\* PidCtrl::new() is PidCtrl::default(), the derived Default
PidCtrl_new ==
    [kp |-> KPTerm_default, ki |-> KITerm_default, kd |-> KDTerm_default,
     limits |-> Limits_new, setpoint |-> 0]

PidCtrl_new_with_pid(p, i, d) ==
    [kp |-> [limits |-> Limits_new, scale |-> p],
     ki |-> [limits |-> Limits_new, scale |-> i, accumulate |-> 0],
     kd |-> [limits |-> Limits_new, scale |-> d, prev_measurement |-> 0],
     limits |-> Limits_new, setpoint |-> 0]

PidCtrl_init_resets_accumulate(c, setpoint, prev_measurement) ==
    [c EXCEPT !.setpoint = setpoint, !.kd.prev_measurement = prev_measurement,
              !.ki.accumulate = 0]

PidCtrl_init(c, setpoint, prev_measurement) ==
    [c EXCEPT !.setpoint = setpoint, !.kd.prev_measurement = prev_measurement]

PidCtrl_step_setpoint_tracked(c, input) ==
    LET offset == FSub(c.setpoint, input.measurement)
        p == KPTerm_step(c.kp, offset)
        i == KITerm_step(c.ki, offset, input.tdelta)
        d == KDTerm_step(c.kd, input.measurement, input.tdelta)
    IN  [pid |-> [c EXCEPT !.ki = i.term, !.kd = d.term, !.setpoint = input.measurement],
         out |-> PidOut_new(p, i.ret, d.ret, Limits_clamp(c.limits, FAdd(FAdd(p, i.ret), d.ret)))]

PidCtrl_step_sum_unclamped(c, input) ==
    LET offset == FSub(c.setpoint, input.measurement)
        p == KPTerm_step(c.kp, offset)
        i == KITerm_step(c.ki, offset, input.tdelta)
        d == KDTerm_step(c.kd, input.measurement, input.tdelta)
    IN  [pid |-> [c EXCEPT !.ki = i.term, !.kd = d.term],
         out |-> PidOut_new(p, i.ret, d.ret, FAdd(FAdd(p, i.ret), d.ret))]

\* returns [pid, out]: the controller after the call and the PidOut returned
PidCtrl_step(c, input) ==
    LET offset == FSub(c.setpoint, input.measurement)
        p == KPTerm_step(c.kp, offset)
        i == KITerm_step(c.ki, offset, input.tdelta)
        d == KDTerm_step(c.kd, input.measurement, input.tdelta)
    IN  [pid |-> [c EXCEPT !.ki = i.term, !.kd = d.term],
         out |-> PidOut_new(p, i.ret, d.ret, Limits_clamp(c.limits, FAdd(FAdd(p, i.ret), d.ret)))]

\* the orders in which the three term steps of PidCtrl::step can be made
Orders ==
    { <<"kp", "ki", "kd">>, <<"kp", "kd", "ki">>, <<"ki", "kp", "kd">>,
      <<"ki", "kd", "kp">>, <<"kd", "kp", "ki">>, <<"kd", "ki", "kp">> }

TermStep_stale_offset(s, t, offset, input) ==
    CASE t = "kp" -> [s EXCEPT !.p = KPTerm_step(s.pid.kp, offset)]
      [] t = "ki" ->
            LET r == KITerm_step(s.pid.ki, FSub(s.pid.setpoint, s.pid.kd.prev_measurement),
                                 input.tdelta)
            IN  [s EXCEPT !.pid.ki = r.term, !.i = r.ret]
      [] t = "kd" ->
            LET r == KDTerm_step(s.pid.kd, input.measurement, input.tdelta)
            IN  [s EXCEPT !.pid.kd = r.term, !.d = r.ret]

\* one of the three calls self.kp.step / self.ki.step / self.kd.step, made on
\* s = [pid, p, i, d]: the controller and the locals of PidCtrl::step so far
TermStep(s, t, offset, input) ==
    CASE t = "kp" -> [s EXCEPT !.p = KPTerm_step(s.pid.kp, offset)]
      [] t = "ki" ->
            LET r == KITerm_step(s.pid.ki, offset, input.tdelta)
            IN  [s EXCEPT !.pid.ki = r.term, !.i = r.ret]
      [] t = "kd" ->
            LET r == KDTerm_step(s.pid.kd, input.measurement, input.tdelta)
            IN  [s EXCEPT !.pid.kd = r.term, !.d = r.ret]

\* the PidOut of PidCtrl::step from its locals s = [pid, p, i, d]
StepResult(s, limits) ==
    [pid |-> s.pid,
     out |-> PidOut_new(s.p, s.i, s.d, Limits_clamp(limits, FAdd(FAdd(s.p, s.i), s.d)))]

\* PidCtrl::step with its three term calls made in the given order
PidCtrl_step_ordered(c, input, order) ==
    LET offset == FSub(c.setpoint, input.measurement)
        s0 == [pid |-> c, p |-> 0, i |-> 0, d |-> 0]
    IN  StepResult(TermStep(TermStep(TermStep(s0, order[1], offset, input),
                                     order[2], offset, input),
                            order[3], offset, input),
                   c.limits)

\* the Limits objects of a controller: kp.limits, ki.limits, kd.limits, limits
Targets == {"kp", "ki", "kd", "pid"}

Terms == {"kp", "ki", "kd"}

LimitsOf(c, t) == IF t = "pid" THEN c.limits ELSE c[t].limits

WithLimits(c, t, l) == IF t = "pid" THEN [c EXCEPT !.limits = l] ELSE [c EXCEPT ![t].limits = l]

---------------------------------------------------------------------------
(* Bounds of the model and the inputs the callers draw from                *)

\* step calls in one run of Spec
MaxSteps == 1

\* configuration calls (set_scale, setpoint, init, Limits setters) in one run
\* of Spec, SpecWindup and SpecDeriv
MaxConf == 1

\* gains given to set_scale
ScaleVals == {0, 2 * ONE}

\* gains given to new_with_pid
CtorVals == {ONE}

\* arguments of the Limits setters
LimitVals == {-ONE, 0, ONE}

\* setpoints, and the previous measurements given to init
PointVals == {0, ONE}

\* measurements, the largest finite magnitude among them
MeasVals == {0, ONE, -MaxFinite}

\* raw time deltas handed to PidIn::new
TdeltaVals == {0, ONE, PosInf}

NoOp == [name |-> "new", target |-> "pid", val |-> 0, val2 |-> 0, ok |-> TRUE]

NoIn == [measurement |-> 0, tdelta |-> 0]

NoOut == PidOut_new(0, 0, 0, 0)

---------------------------------------------------------------------------
(* The calls of the public API, each on the controller `pid`               *)

\* what every configuration call leaves behind in the history variables
Configured(name, t, v, v2, ok) ==
    /\ op' = [name |-> name, target |-> t, val |-> v, val2 |-> v2, ok |-> ok]
    /\ run' = 0
    /\ UNCHANGED <<ctor, inp, out>>

\* pid.kp.set_scale(v), pid.ki.set_scale(v), pid.kd.set_scale(v)
SetScale(t, v) ==
    /\ pid' = [pid EXCEPT ![t] = set_scale(pid[t], v)]
    /\ Configured("set_scale", t, v, 0, TRUE)

\* pid.setpoint = v
SetSetpoint(v) ==
    /\ pid' = [pid EXCEPT !.setpoint = v]
    /\ Configured("setpoint", "pid", v, 0, TRUE)

\* pid.init(sp, prev)
CallInit(sp, prev) ==
    /\ pid' = PidCtrl_init(pid, sp, prev)
    /\ Configured("init", "pid", sp, prev, TRUE)

\* <target>.limits.set_limit(v)
SetLimit(t, v) ==
    /\ pid' = WithLimits(pid, t, Limits_set_limit(LimitsOf(pid, t), v))
    /\ Configured("set_limit", t, v, 0, TRUE)

\* <target>.limits.try_set_upper(v), the Result kept in op.ok
TrySetUpper(t, v) ==
    LET r == Limits_try_set_upper(LimitsOf(pid, t), v)
    IN  /\ pid' = WithLimits(pid, t, r.lim)
        /\ Configured("try_set_upper", t, v, 0, r.ok)

\* <target>.limits.try_set_lower(v)
TrySetLower(t, v) ==
    LET r == Limits_try_set_lower(LimitsOf(pid, t), v)
    IN  /\ pid' = WithLimits(pid, t, r.lim)
        /\ Configured("try_set_lower", t, v, 0, r.ok)

\* pid.step(PidIn::new(m, td))
CallStep(m, td) ==
    LET input == PidIn_new(m, td)
        r == PidCtrl_step(pid, input)
    IN  /\ pid' = r.pid
        /\ out' = r.out
        /\ inp' = input
        /\ op' = [name |-> "step", target |-> "pid", val |-> m, val2 |-> td, ok |-> TRUE]
        /\ run' = IF op.name = "step" /\ inp = input THEN run + 1 ELSE 1
        /\ UNCHANGED ctor

\* pid.step(PidIn::default())
CallStepDefault ==
    LET r == PidCtrl_step(pid, PidIn_default)
    IN  /\ pid' = r.pid
        /\ out' = r.out
        /\ inp' = PidIn_default
        /\ op' = [name |-> "step", target |-> "default", val |-> 0, val2 |-> 0, ok |-> TRUE]
        /\ run' = IF op.name = "step" /\ inp = PidIn_default THEN run + 1 ELSE 1
        /\ UNCHANGED ctor

---------------------------------------------------------------------------
(* Spec: a controller driven by any interleaving of the API calls          *)

Init ==
    /\ \/ pid = PidCtrl_new /\ ctor = [name |-> "new", p |-> 0, i |-> 0, d |-> 0]
       \/ \E g \in CtorVals :
              /\ pid = PidCtrl_new_with_pid(g, g, g)
              /\ ctor = [name |-> "new_with_pid", p |-> g, i |-> g, d |-> g]
    /\ op = NoOp
    /\ inp = NoIn
    /\ out = NoOut
    /\ nsteps = 0
    /\ nconf = 0
    /\ run = 0
    /\ pc = 0

\* one more configuration call of the run
Conf(call) ==
    /\ nconf < MaxConf
    /\ call
    /\ nconf' = nconf + 1
    /\ UNCHANGED <<nsteps, pc>>

ScaleCall == \E t \in Terms, v \in ScaleVals : Conf(SetScale(t, v))

SetpointCall == \E v \in PointVals : Conf(SetSetpoint(v))

InitCall == \E sp \in PointVals, prev \in PointVals : Conf(CallInit(sp, prev))

SetLimitCall == \E t \in Targets, v \in LimitVals : Conf(SetLimit(t, v))

TrySetUpperCall == \E t \in Targets, v \in LimitVals : Conf(TrySetUpper(t, v))

TrySetLowerCall == \E t \in Targets, v \in LimitVals : Conf(TrySetLower(t, v))

Step == \E m \in MeasVals, td \in TdeltaVals :
    /\ nsteps < MaxSteps
    /\ CallStep(m, td)
    /\ nsteps' = nsteps + 1
    /\ UNCHANGED <<nconf, pc>>

\* a step on a default-constructed input
DefaultStep ==
    /\ nsteps < MaxSteps
    /\ CallStepDefault
    /\ nsteps' = nsteps + 1
    /\ UNCHANGED <<nconf, pc>>

Next ==
    \/ ScaleCall
    \/ SetpointCall
    \/ InitCall
    \/ SetLimitCall
    \/ TrySetUpperCall
    \/ TrySetLowerCall
    \/ Step
    \/ DefaultStep

Spec == Init /\ [][Next]_vars

---------------------------------------------------------------------------
(* SpecLimits: one Limits object (pid.limits) under its setters and clamp  *)

\* arguments of the setters and of clamp: any value but NaN
LimitArgs == {NegInf, -MaxFinite, -2 * ONE, -ONE, -1, 0, 1, ONE, 2 * ONE, MaxFinite, PosInf}

\* a call outside the budgets of Spec
Free(call) == call /\ UNCHANGED <<nsteps, nconf, pc>>

\* pid.limits.clamp(v), the value returned kept in op.val2
Clamp(v) ==
    /\ pid' = pid
    /\ Configured("clamp", "pid", v, Limits_clamp(pid.limits, v), TRUE)

InitNew ==
    /\ pid = PidCtrl_new
    /\ ctor = [name |-> "new", p |-> 0, i |-> 0, d |-> 0]
    /\ op = NoOp
    /\ inp = NoIn
    /\ out = NoOut
    /\ nsteps = 0
    /\ nconf = 0
    /\ run = 0
    /\ pc = 0

LimitsSetLimit == \E v \in LimitArgs : Free(SetLimit("pid", v))

LimitsTrySetUpper == \E v \in LimitArgs : Free(TrySetUpper("pid", v))

LimitsTrySetLower == \E v \in LimitArgs : Free(TrySetLower("pid", v))

LimitsClamp == \E v \in LimitArgs : Free(Clamp(v))

NextLimits ==
    \/ LimitsSetLimit
    \/ LimitsTrySetUpper
    \/ LimitsTrySetLower
    \/ LimitsClamp

SpecLimits == InitNew /\ [][NextLimits]_vars

---------------------------------------------------------------------------
(* SpecCtor: the two constructors followed by set_scale calls              *)

GainVals == {0, ONE, 2 * ONE, 3 * ONE}

InitCtor ==
    /\ \/ pid = PidCtrl_new /\ ctor = [name |-> "new", p |-> 0, i |-> 0, d |-> 0]
       \/ \E p \in GainVals, i \in GainVals, d \in GainVals :
              /\ pid = PidCtrl_new_with_pid(p, i, d)
              /\ ctor = [name |-> "new_with_pid", p |-> p, i |-> i, d |-> d]
    /\ op = NoOp
    /\ inp = NoIn
    /\ out = NoOut
    /\ nsteps = 0
    /\ nconf = 0
    /\ run = 0
    /\ pc = 0

CtorSetScale == \E t \in Terms, v \in GainVals : Free(SetScale(t, v))

NextCtor ==
    \/ CtorSetScale

SpecCtor == InitCtor /\ [][NextCtor]_vars

---------------------------------------------------------------------------
(* SpecIn: PidIn::new on every time delta but NaN                          *)

InMeasVals == {-MaxFinite, -ONE, 0, ONE, MaxFinite}

InTdeltaVals == NegInf..PosInf

\* the caller has chosen the arguments (op.val, op.val2) and not yet called
InitIn ==
    /\ pid = PidCtrl_new
    /\ ctor = [name |-> "new", p |-> 0, i |-> 0, d |-> 0]
    /\ \E m \in InMeasVals, td \in InTdeltaVals :
           op = [name |-> "args", target |-> "pid", val |-> m, val2 |-> td, ok |-> TRUE]
    /\ inp = NoIn
    /\ out = NoOut
    /\ nsteps = 0
    /\ nconf = 0
    /\ run = 0
    /\ pc = 0

\* PidIn::new(op.val, op.val2)
NewInput ==
    /\ op.name = "args"
    /\ inp' = PidIn_new(op.val, op.val2)
    /\ op' = [op EXCEPT !.name = "PidIn_new"]
    /\ UNCHANGED <<pid, ctor, out, nsteps, nconf, run, pc>>

NextIn ==
    \/ NewInput

SpecIn == InitIn /\ [][NextIn]_vars

---------------------------------------------------------------------------
(* SpecWindup: the integral term under runs of steps.  All configuration   *)
(* is of the integral term and the setpoint; any configuration call ends   *)
(* the current run of steps (run = 0).                                     *)

\* step calls in one run of SpecWindup
MaxWindupSteps == 3

WindupScaleVals == {-ONE, ONE, 2 * ONE}

WindupTdeltaVals == {HALF, PosInf}

WindupMeasVals == {0, 2 * ONE, -MaxFinite}

WindupScale == \E v \in WindupScaleVals : Conf(SetScale("ki", v))

WindupSetpoint == \E v \in PointVals : Conf(SetSetpoint(v))

WindupSetLimit == \E v \in LimitVals : Conf(SetLimit("ki", v))

WindupTrySetUpper == \E v \in LimitVals : Conf(TrySetUpper("ki", v))

WindupTrySetLower == \E v \in LimitVals : Conf(TrySetLower("ki", v))

WindupStep == \E m \in WindupMeasVals, td \in WindupTdeltaVals :
    /\ nsteps < MaxWindupSteps
    /\ CallStep(m, td)
    /\ nsteps' = nsteps + 1
    /\ UNCHANGED <<nconf, pc>>

NextWindup ==
    \/ WindupScale
    \/ WindupSetpoint
    \/ WindupSetLimit
    \/ WindupTrySetUpper
    \/ WindupTrySetLower
    \/ WindupStep

SpecWindup == Init /\ [][NextWindup]_vars

---------------------------------------------------------------------------
(* SpecDeriv: the derivative term under consecutive steps.  All            *)
(* configuration is of the derivative term, or init.                       *)

\* step calls in one run of SpecDeriv
MaxDerivSteps == 2

\* derivative gains: none, f64::EPSILON as in the example, and a plain one
DerivScaleVals == {0, EPSILON, 2 * ONE}

DerivScale == \E v \in DerivScaleVals : Conf(SetScale("kd", v))

DerivInit == \E sp \in PointVals, prev \in PointVals : Conf(CallInit(sp, prev))

DerivSetLimit == \E v \in LimitVals : Conf(SetLimit("kd", v))

DerivTrySetUpper == \E v \in LimitVals : Conf(TrySetUpper("kd", v))

DerivTrySetLower == \E v \in LimitVals : Conf(TrySetLower("kd", v))

DerivStep == \E m \in MeasVals, td \in TdeltaVals :
    /\ nsteps < MaxDerivSteps
    /\ CallStep(m, td)
    /\ nsteps' = nsteps + 1
    /\ UNCHANGED <<nconf, pc>>

NextDeriv ==
    \/ DerivScale
    \/ DerivInit
    \/ DerivSetLimit
    \/ DerivTrySetUpper
    \/ DerivTrySetLower
    \/ DerivStep

SpecDeriv == Init /\ [][NextDeriv]_vars

---------------------------------------------------------------------------
(* SpecExample: the `example` test of tests/api.rs, run on every choice    *)
(* of the three gains and of the setpoint given to init.  pc is the number *)
(* of calls of the test made so far.                                       *)

ExGainVals == {ONE, 2 * ONE, 3 * ONE}

ExSetpointVals == {0, ONE, 5 * ONE}

Call(name, t, v, v2) == [name |-> name, target |-> t, val |-> v, val2 |-> v2]

\* the calls of the test in order; init's setpoint is drawn from ExSetpointVals
Script == <<
    Call("init", "pid", 5 * ONE, 0),
    Call("step", "pid", 0, ONE),
    Call("set_scale", "kp", 4 * ONE, 0),
    Call("step", "pid", 0, ONE),
    Call("set_limit", "kp", 10 * ONE, 0),
    Call("step", "pid", 0, ONE),
    Call("step", "pid", 0, HALF),
    Call("try_set_upper", "ki", 28 * ONE, 0),
    Call("step", "pid", 0, HALF),
    Call("set_scale", "kd", EPSILON, 0),
    Call("step", "pid", ONE, -7 * ONE),
    Call("setpoint", "pid", ONE, 0),
    Call("step", "pid", ONE, -7 * ONE) >>

\* the next call of the test is `name`
At(name) == pc < Len(Script) /\ Script[pc + 1].name = name

Advance == pc' = pc + 1 /\ UNCHANGED <<nsteps, nconf>>

InitExample ==
    /\ \E p \in ExGainVals, i \in ExGainVals, d \in ExGainVals :
           /\ pid = PidCtrl_new_with_pid(p, i, d)
           /\ ctor = [name |-> "new_with_pid", p |-> p, i |-> i, d |-> d]
    /\ op = NoOp
    /\ inp = NoIn
    /\ out = NoOut
    /\ nsteps = 0
    /\ nconf = 0
    /\ run = 0
    /\ pc = 0

ExInit == \E sp \in ExSetpointVals :
    At("init") /\ CallInit(sp, Script[pc + 1].val2) /\ Advance

ExStep == At("step") /\ CallStep(Script[pc + 1].val, Script[pc + 1].val2) /\ Advance

ExSetScale == At("set_scale") /\ SetScale(Script[pc + 1].target, Script[pc + 1].val) /\ Advance

ExSetLimit == At("set_limit") /\ SetLimit(Script[pc + 1].target, Script[pc + 1].val) /\ Advance

\* try_set_upper(..).unwrap(): the test goes on only on Ok
ExTrySetUpper ==
    /\ At("try_set_upper")
    /\ Limits_try_set_upper(LimitsOf(pid, Script[pc + 1].target), Script[pc + 1].val).ok
    /\ TrySetUpper(Script[pc + 1].target, Script[pc + 1].val)
    /\ Advance

ExSetSetpoint == At("setpoint") /\ SetSetpoint(Script[pc + 1].val) /\ Advance

NextExample ==
    \/ ExInit
    \/ ExStep
    \/ ExSetScale
    \/ ExSetLimit
    \/ ExTrySetUpper
    \/ ExSetSetpoint

SpecExample == InitExample /\ [][NextExample]_vars

---------------------------------------------------------------------------
(* SpecKd: the `kd` unit test of lib.rs, run on every choice of its        *)
(* constants: a default controller, init(setpoint, prev),                  *)
(* kd.set_scale(kd), then steps.  pc is the number of calls made so far.   *)

\* step calls in one run of SpecKd
MaxKdSteps == 2

KdGainVals == {ONE, 2 * ONE}

KdMeasVals == {0, ONE, 2 * ONE}

KdTdVals == {HALF, ONE, 2 * ONE}

KdInit == \E sp \in PointVals, prev \in KdMeasVals :
    pc = 0 /\ CallInit(sp, prev) /\ Advance

KdSetScale == \E kd \in KdGainVals :
    pc = 1 /\ SetScale("kd", kd) /\ Advance

KdStep == \E measurement \in KdMeasVals, td \in KdTdVals :
    /\ pc >= 2
    /\ pc < 2 + MaxKdSteps
    /\ CallStep(measurement, td)
    /\ Advance

NextKd ==
    \/ KdInit
    \/ KdSetScale
    \/ KdStep

SpecKd == InitNew /\ [][NextKd]_vars

---------------------------------------------------------------------------
(* Properties                                                              *)

IMin(a, b) == IF a < b THEN a ELSE b

IMax(a, b) == IF a > b THEN a ELSE b

Unclamped == [lower |-> NegInf, upper |-> PosInf]

\* C1: after any sequence of set_limit, try_set_upper and try_set_lower calls
\* with non-NaN arguments, accepted or rejected, lower <= upper (checked under
\* SpecLimits on pid.limits, and stated for every Limits of the controller).
C1_LowerLeUpper ==
    \A t \in Targets :
        /\ ~IsNaN(LimitsOf(pid, t).lower)
        /\ ~IsNaN(LimitsOf(pid, t).upper)
        /\ LimitsOf(pid, t).lower <= LimitsOf(pid, t).upper

\* a try_set_upper call has just been rejected on a range with finite bounds
C1_Witness ==
    /\ op.name = "try_set_upper"
    /\ ~op.ok
    /\ IsFinite(pid.limits.lower)
    /\ IsFinite(pid.limits.upper)
    /\ pid.limits.lower < pid.limits.upper

\* C2: try_set_upper(v) is Ok exactly when lower <= v and try_set_lower(v)
\* exactly when upper >= v; on Ok only the named bound becomes v, on Err both
\* bounds are what they were before the call.
C2_TrySetters ==
    [][ /\ op'.name = "try_set_upper" =>
              /\ op'.ok <=> (pid.limits.lower <= op'.val)
              /\ op'.ok => pid'.limits = [lower |-> pid.limits.lower, upper |-> op'.val]
              /\ ~op'.ok => pid'.limits = pid.limits
        /\ op'.name = "try_set_lower" =>
              /\ op'.ok <=> (pid.limits.upper >= op'.val)
              /\ op'.ok => pid'.limits = [lower |-> op'.val, upper |-> pid.limits.upper]
              /\ ~op'.ok => pid'.limits = pid.limits
        /\ op'.name \in {"try_set_upper", "try_set_lower"} =>
              /\ pid'.kp = pid.kp /\ pid'.ki = pid.ki /\ pid'.kd = pid.kd
              /\ pid'.setpoint = pid.setpoint
      ]_vars

\* a try_set_lower call has just been rejected: its argument is above upper
C2_Witness ==
    /\ op.name = "try_set_lower"
    /\ ~op.ok
    /\ pid.limits.upper < op.val
    /\ IsFinite(pid.limits.lower)

\* C8: PidIn::new(measurement, tdelta) keeps the measurement and stores
\* max(tdelta, epsilon): every tdelta below epsilon becomes epsilon, every
\* tdelta >= epsilon, +infinity included, is kept.
C8_InputClamp ==
    op.name = "PidIn_new" =>
        /\ inp.measurement = op.val
        /\ inp.tdelta = IMax(op.val2, EPSILON)
        /\ (op.val2 < EPSILON => inp.tdelta = EPSILON)
        /\ (op.val2 >= EPSILON => inp.tdelta = op.val2)

\* PidIn::new was given a positive time delta below epsilon and stored epsilon
C8_Witness ==
    /\ op.name = "PidIn_new"
    /\ op.val2 > 0
    /\ op.val2 < EPSILON
    /\ inp.tdelta = EPSILON
    /\ inp.measurement = MaxFinite

\* C9: after construction and any number of set_scale calls the controller is
\* field for field new_with_pid of its three scales: all four Limits
\* unclamped, accumulate, prev_measurement and setpoint 0; the scales are the
\* constructor's (0 for new) until set_scale overwrites them.
C9_ConstructorsAgree ==
    /\ pid = PidCtrl_new_with_pid(pid.kp.scale, pid.ki.scale, pid.kd.scale)
    /\ \A t \in Targets : LimitsOf(pid, t) = Unclamped
    /\ pid.ki.accumulate = 0
    /\ pid.kd.prev_measurement = 0
    /\ pid.setpoint = 0
    /\ op.name = "new" =>
           /\ pid.kp.scale = ctor.p /\ pid.ki.scale = ctor.i /\ pid.kd.scale = ctor.d
           /\ ctor.name = "new" => pid = PidCtrl_new_with_pid(0, 0, 0)
    /\ op.name = "set_scale" => pid[op.target].scale = op.val

\* the api test: new() then set_scale(3), set_scale(2), set_scale(1)
C9_Witness ==
    /\ ctor.name = "new"
    /\ op.name = "set_scale"
    /\ pid = PidCtrl_new_with_pid(3 * ONE, 2 * ONE, ONE)

\* C10: for Limits reachable through the setters and every value v but NaN,
\* clamp(v) = min(upper, max(lower, v)), it lies in [lower, upper], and it
\* is v when lower <= v <= upper.
C10_Clamp ==
    op.name = "clamp" =>
        LET l == pid.limits
            v == op.val
            r == op.val2
        IN  /\ r = IMin(l.upper, IMax(l.lower, v))
            /\ l.lower <= r /\ r <= l.upper
            /\ (l.lower <= v /\ v <= l.upper) => r = v

\* a value below a finite, non-degenerate range was clamped to its lower bound
C10_Witness ==
    /\ op.name = "clamp"
    /\ IsFinite(pid.limits.lower)
    /\ pid.limits.lower < pid.limits.upper
    /\ op.val < pid.limits.lower
    /\ op.val2 = pid.limits.lower

\* v is a number in [l.lower, l.upper]
InRange(l, v) == ~IsNaN(v) /\ l.lower <= v /\ v <= l.upper

\* setpoint - measurement of the last step (step leaves the setpoint alone)
LastOffset == FSub(pid.setpoint, inp.measurement)

\* C3: the out field of every Output returned by PidCtrl::step lies in
\* [limits.lower, limits.upper] of the controller's overall Limits.
C3_OutWithinLimits ==
    op.name = "step" => InRange(pid.limits, out.out)

\* a step whose sum p + i + d exceeded a finite overall upper limit
C3_Witness ==
    /\ op.name = "step"
    /\ IsFinite(pid.limits.upper)
    /\ FAdd(FAdd(out.p, out.i), out.d) > pid.limits.upper
    /\ ~IsNaN(FAdd(FAdd(out.p, out.i), out.d))
    /\ out.out = pid.limits.upper

C5_AntiWindup ==
    run >= 1 =>
        /\ pid.ki.accumulate = out.i
        /\ InRange(pid.ki.limits, out.i)
        /\ InRange(pid.ki.limits, pid.ki.accumulate)

\* the third step of a run with a constant input whose increment still
\* pushes upwards while the accumulator sits at its finite upper limit
C5_Witness ==
    /\ run >= 3
    /\ IsFinite(pid.ki.limits.upper)
    /\ IsFinite(pid.ki.limits.lower)
    /\ FMul(FMul(pid.ki.scale, LastOffset), inp.tdelta) > 0
    /\ ~IsNaN(FMul(FMul(pid.ki.scale, LastOffset), inp.tdelta))
    /\ out.i = pid.ki.limits.upper
    /\ pid.ki.accumulate = pid.ki.limits.upper

\* C6 as claimed: the second of two consecutive steps with the same
\* measurement, and the first step after init(setpoint, m) with measurement
\* m, return d exactly 0.
C6_Original ==
    [][ /\ (op.name = "step" /\ op'.name = "step" /\ inp'.measurement = inp.measurement)
            => out'.d = 0
        /\ (op.name = "init" /\ op'.name = "step" /\ inp'.measurement = op.val2)
            => out'.d = 0
      ]_vars

\* C6 amended: in those two cases d is 0 clamped into the derivative Limits:
\* 0 when lower <= 0 <= upper, else the bound nearest to 0.
C6_Amended ==
    [][ ( \/ (op.name = "step" /\ op'.name = "step" /\ inp'.measurement = inp.measurement)
          \/ (op.name = "init" /\ op'.name = "step" /\ inp'.measurement = op.val2) )
        => /\ (pid.kd.limits.lower <= 0 /\ 0 <= pid.kd.limits.upper) => out'.d = 0
           /\ pid.kd.limits.lower > 0 => out'.d = pid.kd.limits.lower
           /\ pid.kd.limits.upper < 0 => out'.d = pid.kd.limits.upper
      ]_vars

\* the second of two steps with the same non-zero measurement, under a
\* non-zero derivative gain and derivative Limits that contain 0
C6_Witness ==
    /\ run >= 2
    /\ inp.measurement # 0
    /\ pid.kd.scale # 0
    /\ pid.kd.limits.lower <= 0
    /\ 0 <= pid.kd.limits.upper
    /\ IsFinite(pid.kd.limits.upper)
    /\ out.d = 0

\* the values of one step as section 4 of the specification composes them
ExpectedOut(c, input) ==
    LET offset == FSub(c.setpoint, input.measurement)
        p == IMin(c.kp.limits.upper, IMax(c.kp.limits.lower, FMul(c.kp.scale, offset)))
        i == IMin(c.ki.limits.upper,
                  IMax(c.ki.limits.lower,
                       FAdd(FMul(FMul(c.ki.scale, offset), input.tdelta), c.ki.accumulate)))
        d == IMin(c.kd.limits.upper,
                  IMax(c.kd.limits.lower,
                       FDiv(FMul(c.kd.scale, FSub(c.kd.prev_measurement, input.measurement)),
                            input.tdelta)))
        o == IMin(c.limits.upper, IMax(c.limits.lower, FAdd(FAdd(p, i), d)))
    IN  [p |-> p, i |-> i, d |-> d, out |-> o]

\* the test was started with gains 3, 2, 1 and init(5, 0)
Scenario ==
    /\ ctor = [name |-> "new_with_pid", p |-> 3 * ONE, i |-> 2 * ONE, d |-> ONE]
    /\ pc >= 1
    /\ pc <= 9
    /\ pid.setpoint = 5 * ONE

ScenarioOut(p, i, d, o) == [p |-> p * HALF, i |-> i * HALF, d |-> d * HALF, out |-> o * HALF]

\* C7: every step returns p, i, d and out computed from the offset, the
\* scales, limits and setpoint of the moment of the call and the accumulate
\* and prev_measurement before it; and the example scenario yields
\* (15, 10, 0, 25), (20, 20, 0, 40), (10, 30, 0, 40), (10, 35, 0, 45) and
\* (10, 28, 0, 38).  (ScenarioOut takes its arguments in halves.)
C7_StepComputes ==
    /\ [][op'.name = "step" => out' = ExpectedOut(pid, inp')]_vars
    /\ [](Scenario =>
            /\ pc = 2 => out = ScenarioOut(30, 20, 0, 50)
            /\ pc = 4 => out = ScenarioOut(40, 40, 0, 80)
            /\ pc = 6 => out = ScenarioOut(20, 60, 0, 80)
            /\ pc = 7 => out = ScenarioOut(20, 70, 0, 90)
            /\ pc = 9 => out = ScenarioOut(20, 56, 0, 76))

\* the scenario has reached its fifth step, after ki.limits.try_set_upper(28)
C7_Witness ==
    /\ Scenario
    /\ pc = 9
    /\ op.name = "step"
    /\ out.i = 28 * ONE

\* C11: set_limit(m) succeeds from every prior Limits, also from those on
\* which try_set_upper(|m|) or try_set_lower(-|m|) alone would be rejected,
\* and leaves lower = -|m| and upper = |m|; set_limit(-m) leaves the same.
C11_SetLimit ==
    [][ op'.name = "set_limit" =>
            /\ op'.ok
            /\ pid'.limits = [lower |-> -Mag(op'.val), upper |-> Mag(op'.val)]
            /\ pid'.limits = Limits_set_limit(pid.limits, -op'.val)
            /\ pid'.kp = pid.kp /\ pid'.ki = pid.ki /\ pid'.kd = pid.kd
            /\ pid'.setpoint = pid.setpoint
      ]_vars

\* set_limit has just been called with a negative finite magnitude
C11_Witness ==
    /\ op.name = "set_limit"
    /\ op.val < 0
    /\ IsFinite(op.val)
    /\ pid.limits = [lower |-> op.val, upper |-> -op.val]

\* the derivative before the clamp, from the controller as it is before the step
RawD(c, input) ==
    FDiv(FMul(c.kd.scale, FSub(c.kd.prev_measurement, input.measurement)), input.tdelta)

\* every step returns d = clamp(RawD) and stores its measurement; init stores
\* its seed; nothing else touches prev_measurement, which is 0 after construction
DerivativeLaw ==
    /\ [][ /\ op'.name = "step" =>
                /\ out'.d = IMin(pid.kd.limits.upper, IMax(pid.kd.limits.lower, RawD(pid, inp')))
                /\ pid'.kd.prev_measurement = inp'.measurement
           /\ op'.name = "init" => pid'.kd.prev_measurement = op'.val2
           /\ op'.name \notin {"step", "init"} =>
                pid'.kd.prev_measurement = pid.kd.prev_measurement
           /\ ( /\ op'.name = "step"
                /\ pid.kd.prev_measurement = 0
                /\ inp'.measurement = ONE
                /\ pid.kd.scale = EPSILON
                /\ inp'.tdelta = EPSILON
                /\ pid.kd.limits = Unclamped ) => out'.d = -ONE
         ]_vars
    /\ [](op = NoOp => pid.kd.prev_measurement = 0)

\* a step whose measurement is above the stored one, under a positive gain
Rising == op'.name = "step" /\ pid.kd.scale > 0 /\ inp'.measurement > pid.kd.prev_measurement

\* C12 as stated: the derivative law, and a rising measurement under a
\* positive scale always gives d <= 0.
C12_Original ==
    /\ DerivativeLaw
    /\ [][Rising => out'.d <= 0]_vars

\* C12: every step returns d = clamp_kd(kd.scale * (prev_measurement -
\* measurement) / tdelta), prev_measurement being the measurement of the
\* preceding step (or init's seed, or 0 after construction), and stores its
\* measurement in kd.prev_measurement even when d was saturated; with prev 0,
\* measurement 1, scale = tdelta = epsilon and unclamped limits d = -1; a rising
\* measurement under a positive scale gives d <= 0 provided kd.limits.lower <= 0
\* and the value before the clamp is not NaN.
C12_Amended ==
    /\ DerivativeLaw
    /\ [][ (Rising /\ pid.kd.limits.lower <= 0 /\ ~IsNaN(RawD(pid, inp'))) => out'.d <= 0 ]_vars

\* a step with a rising measurement whose d was saturated at a finite
\* negative lower bound, the measurement stored all the same
C12_Witness ==
    /\ op.name = "step"
    /\ inp.measurement = ONE
    /\ pid.kd.prev_measurement = ONE
    /\ pid.kd.scale = ONE
    /\ out.d = pid.kd.limits.lower
    /\ out.d = -ONE

\* the kd test holds: derivative gain only, Limits untouched
KdCase == pid.kp.scale = 0 /\ pid.ki.scale = 0 /\ pid.kd.limits = Unclamped

C14_TdeltaAtLeastEpsilon ==
    op.name = "step" => (inp.tdelta >= EPSILON /\ inp.tdelta > 0 /\ ~IsNaN(inp.tdelta))

\* a Limits setter applied to ki.limits
KiLimitsSetter(o) ==
    o.target = "ki" /\ o.name \in {"set_limit", "try_set_upper", "try_set_lower"}

\* C15 as stated: in every reachable state ki.accumulate lies within
\* [ki.limits.lower, ki.limits.upper].
C15_Original == InRange(pid.ki.limits, pid.ki.accumulate)

\* C15: right after every step ki.accumulate lies within ki.limits, and every
\* call other than a Limits setter on ki.limits keeps it there; a setter that
\* narrows ki.limits between steps leaves a stored accumulate outside the new
\* range until the next step clamps it.
C15_Amended ==
    [][ /\ op'.name = "step" => InRange(pid'.ki.limits, pid'.ki.accumulate)
        /\ (InRange(pid.ki.limits, pid.ki.accumulate) /\ ~KiLimitsSetter(op'))
              => InRange(pid'.ki.limits, pid'.ki.accumulate)
        /\ KiLimitsSetter(op') => pid'.ki.accumulate = pid.ki.accumulate
      ]_vars

\* ki.limits narrowed after a step, the accumulate of that step now outside
C15_Witness ==
    /\ KiLimitsSetter(op)
    /\ nsteps >= 1
    /\ IsFinite(pid.ki.accumulate)
    /\ ~InRange(pid.ki.limits, pid.ki.accumulate)

Constructed ==
    IF ctor.name = "new" THEN PidCtrl_new ELSE PidCtrl_new_with_pid(ctor.p, ctor.i, ctor.d)

\* C17: init(setpoint, prev_measurement) changes exactly setpoint and
\* kd.prev_measurement, ki.accumulate and everything else staying as they
\* were, also after steps; init(0, 0) on a fresh controller leaves it equal
\* to the constructed one.
C17_InitFrame ==
    [][ op'.name = "init" =>
            /\ pid' = [pid EXCEPT !.setpoint = op'.val, !.kd.prev_measurement = op'.val2]
            /\ pid'.ki.accumulate = pid.ki.accumulate
            /\ (op = NoOp /\ op'.val = 0 /\ op'.val2 = 0) => (pid' = pid /\ pid' = Constructed)
      ]_vars

\* init called after a step that left a non-zero accumulate
C17_Witness ==
    /\ op.name = "init"
    /\ nsteps >= 1
    /\ pid.ki.accumulate # 0
    /\ pid.setpoint = ONE
    /\ pid.kd.prev_measurement = op.val2

\* C18: the order of the three term steps inside one step is not observable:
\* made in any of the six orders, each term stepped once, they give the
\* Output and the controller state that the step gave.
C18_OrderFree ==
    [][ op'.name = "step" =>
            \A order \in Orders :
                PidCtrl_step_ordered(pid, inp', order) = [pid |-> pid', out |-> out']
      ]_vars

\* a step in which all three terms returned a non-zero value and both stored
\* values moved
C18_Witness ==
    /\ op.name = "step"
    /\ out.p # 0
    /\ out.i # 0
    /\ out.d # 0
    /\ pid.ki.accumulate = out.i
    /\ pid.kd.prev_measurement = ONE
    /\ pid.setpoint = 0

====
